---- MODULE Spec2Model ----
(* Model of tasksB.py: module initialisation (token check, app, function  *)
(* definitions), the guards B1 and B2, and the task wrappers B3..B10.     *)
(* Strings of the program (paths, open modes, the token) are sequences of *)
(* one-character strings, so that startswith / endswith / `in` are        *)
(* computed character by character as Python computes them.              *)
EXTENDS Integers, Sequences, FiniteSets, TLC

VARIABLES env, pc, AIPROXY_TOKEN, app, defined, call, trace, result, log

vars == <<env, pc, AIPROXY_TOKEN, app, defined, call, trace, result, log>>

\* ---------------------------------------------------------------- bounds
MaxSegs == 3        \* segments of a path handed directly to B1
WrapSegs == 1       \* segments of a path handed to B2 or to a task wrapper
MaxModeLen == 2     \* characters of an open mode handed to B2
MaxLog == 2         \* log records after which no further call is started

\* --------------------------------------------------------------- strings
\* Python values a name can hold here: unbound, None, or a str
Unbound == [kind |-> "unbound", value |-> <<>>]
None == [kind |-> "None", value |-> <<>>]
Str(s) == [kind |-> "str", value |-> s]

StartsWith(s, prefix) ==
    /\ Len(s) >= Len(prefix)
    /\ SubSeq(s, 1, Len(prefix)) = prefix

EndsWith(s, suffix) ==
    /\ Len(s) >= Len(suffix)
    /\ SubSeq(s, Len(s) - Len(suffix) + 1, Len(s)) = suffix

Contains(c, s) == \E i \in 1..Len(s) : s[i] = c

SeqsUpTo(S, n) == UNION {[1..k -> S] : k \in 0..n}

\* the path segments inputs are built from
SegData == <<"d", "a", "t", "a">>
SegData2 == <<"d", "a", "t", "a", "2">>
SegEtc == <<"e", "t", "c">>
SegDotDot == <<".", ".">>
SegDb == <<"x", ".", "d", "b">>
Segments == {SegData, SegData2, SegEtc, SegDotDot, SegDb}

RECURSIVE JoinSlash(_)
JoinSlash(segs) ==
    IF Len(segs) = 0 THEN <<>>
    ELSE IF Len(segs) = 1 THEN segs[1]
    ELSE segs[1] \o <<"/">> \o JoinSlash(Tail(segs))

MkPath(segs, absolute) ==
    IF absolute THEN <<"/">> \o JoinSlash(segs) ELSE JoinSlash(segs)

PathsUpTo(n) == {MkPath(s, a) : s \in SeqsUpTo(Segments, n), a \in BOOLEAN}
GuardPaths == PathsUpTo(MaxSegs)
WrapPaths == PathsUpTo(WrapSegs)

ModeChars == {"r", "w", "a", "x", "+", "b"}
Modes == SeqsUpTo(ModeChars, MaxModeLen)

\* os.environ.get("AIPROXY_TOKEN"): absent, empty, or set
EnvValues == {None, Str(<<>>), Str(<<"t">>)}

\* ------------------------------------------------- results of a function
Returned(v) == [ret |-> v, exc |-> "none", status |-> 0, detail |-> "none"]
Raised(e, st, d) == [ret |-> "none", exc |-> e, status |-> st, detail |-> d]
NoResult == [ret |-> "none", exc |-> "none", status |-> 0, detail |-> "none"]

Event(o, p, m, d) == [op |-> o, path |-> p, mode |-> m, data |-> d]
NoCall == [fn |-> "none", paths |-> <<>>, mode |-> <<>>]

\* ---------------------------------------------------------------- guards
DataPrefix == <<"/", "d", "a", "t", "a">>

\* B1 as it would be if it remembered earlier rejections
B1Stateful(filepath) ==
    IF ~StartsWith(filepath, DataPrefix) /\ Len(log) = 0
    THEN Raised("HTTPException", 403, "Access outside /data is not allowed.")
    ELSE Returned("True")

B1(filepath) ==
    IF ~StartsWith(filepath, DataPrefix)
    THEN Raised("HTTPException", 403, "Access outside /data is not allowed.")
    ELSE Returned("True")

B2(filepath, mode) ==
    IF Contains("w", mode) \/ Contains("x", mode) \/ Contains("a", mode)
    THEN Raised("PermissionError", 0, "Modifications to files are not allowed.")
    ELSE Returned("True")

\* ------------------------------------------------- module initialisation
DefOrder == <<"B1", "B2", "B3", "B4", "B5", "B6", "B8", "B9", "B10">>
Wrappers == {"B3", "B4", "B5", "B6", "B8", "B9", "B10"}

\* the check as `if AIPROXY_TOKEN is None`
FalsyNoneOnly(v) == v = None

\* Python truthiness of os.environ.get(...): None and "" are falsy
Falsy(v) == v = None \/ v = Str(<<>>)

Init ==
    /\ env \in EnvValues
    /\ pc = "import"
    /\ AIPROXY_TOKEN = Unbound
    /\ app = FALSE
    /\ defined = {}
    /\ call = NoCall
    /\ trace = <<>>
    /\ result = NoResult
    /\ log = <<>>

ReadEnv ==
    /\ pc = "import"
    /\ AIPROXY_TOKEN' = env
    /\ pc' = "check"
    /\ UNCHANGED <<env, app, defined, call, trace, result, log>>

CheckToken ==
    /\ pc = "check"
    /\ pc' = IF Falsy(AIPROXY_TOKEN) THEN "raised" ELSE "app"
    /\ UNCHANGED <<env, AIPROXY_TOKEN, app, defined, call, trace, result, log>>

CreateApp ==
    /\ pc = "app"
    /\ app' = TRUE
    /\ pc' = "defs"
    /\ UNCHANGED <<env, AIPROXY_TOKEN, defined, call, trace, result, log>>

DefineFunction ==
    /\ pc = "defs"
    /\ defined' = defined \cup {DefOrder[Cardinality(defined) + 1]}
    /\ pc' = IF Cardinality(defined) + 1 = Len(DefOrder) THEN "ready" ELSE "defs"
    /\ UNCHANGED <<env, AIPROXY_TOKEN, app, call, trace, result, log>>

\* a function can be called once the module has been imported; the caller
\* makes one call at a time and takes its outcome before the next one
Callable(fn) ==
    /\ pc = "ready"
    /\ fn \in defined
    /\ call = NoCall
    /\ Len(log) < MaxLog

\* the call's frame ends: the caller has the value or the exception
ReturnToCaller ==
    /\ call # NoCall
    /\ call' = NoCall
    /\ trace' = <<>>
    /\ result' = NoResult
    /\ UNCHANGED <<env, pc, AIPROXY_TOKEN, app, defined, log>>

\* ---------------------------------------------------- direct guard calls
LogOf(r) == IF r.exc = "none" THEN <<>> ELSE <<"ERROR">>

CallB1 ==
    /\ Callable("B1")
    /\ \E filepath \in GuardPaths :
        /\ call' = [fn |-> "B1", paths |-> <<filepath>>, mode |-> <<>>]
        /\ trace' = <<Event("B1", filepath, <<>>, "none")>>
        /\ result' = B1(filepath)
        /\ log' = log \o LogOf(B1(filepath))
        /\ UNCHANGED <<env, pc, AIPROXY_TOKEN, app, defined>>

CallB2 ==
    /\ Callable("B2")
    /\ \E filepath \in WrapPaths, mode \in Modes :
        /\ call' = [fn |-> "B2", paths |-> <<filepath>>, mode |-> mode]
        /\ trace' = <<Event("B2", filepath, mode, "none")>>
        /\ result' = B2(filepath, mode)
        /\ log' = log \o LogOf(B2(filepath, mode))
        /\ UNCHANGED <<env, pc, AIPROXY_TOKEN, app, defined>>

\* the guard call just made is made again with the same input, before
\* its outcome is taken
RepeatGuard ==
    /\ pc = "ready"
    /\ call.fn \in {"B1", "B2"}
    /\ Len(log) < MaxLog
    /\ LET r == IF call.fn = "B1" THEN B1(call.paths[1])
                ELSE B2(call.paths[1], call.mode)
       IN /\ result' = r
          /\ log' = log \o LogOf(r)
    /\ UNCHANGED <<env, pc, AIPROXY_TOKEN, app, defined, call, trace>>

\* --------------------------------------------------------- task wrappers
\* `if not B1(p1) or not B1(p2): raise HTTPException(403)`: the paths are
\* checked left to right; B1 raises at the first rejected one, and the
\* wrapper's own raise is never reached because B1 never returns False.
RECURSIVE CheckPaths(_)
CheckPaths(paths) ==
    IF Len(paths) = 0 THEN [events |-> <<>>, result |-> Returned("True")]
    ELSE LET r == B1(Head(paths))
             e == Event("B1", Head(paths), <<>>, "none")
         IN IF r.exc # "none" THEN [events |-> <<e>>, result |-> r]
            ELSE LET rest == CheckPaths(Tail(paths))
                 IN [events |-> <<e>> \o rest.events, result |-> rest.result]

\* a try block that goes on after the operation that raised
RunTryContinue(body, k) ==
    IF k = 0
    THEN [events |-> body, result |-> Returned("True"), logged |-> "INFO"]
    ELSE [events |-> body,
          result |-> Raised("HTTPException", 500, body[k].op),
          logged |-> "ERROR"]

\* try: <body>; logging.info(...); return True
\* except Exception as e: logging.error(...); raise HTTPException(500, str(e))
\* k = 0: no operation of the body raises; k > 0: the k-th operation raises.
RunTry(body, k) ==
    IF k = 0
    THEN [events |-> body, result |-> Returned("True"), logged |-> "INFO"]
    ELSE [events |-> SubSeq(body, 1, k - 1),
          result |-> Raised("HTTPException", 500, body[k].op),
          logged |-> "ERROR"]

\* a wrapper with the guard inside the try block: `except Exception`
\* catches the guard's HTTPException and reports it as 500
OutcomeGuardInTry(paths, body, k) ==
    LET g == CheckPaths(paths)
        t == RunTry(body, k)
    IN IF g.result.exc # "none"
       THEN [trace |-> g.events,
             result |-> Raised("HTTPException", 500, g.result.detail),
             logged |-> "ERROR"]
       ELSE [trace |-> g.events \o t.events, result |-> t.result,
             logged |-> t.logged]

\* a task wrapper: the guard on its paths, then the try block
Outcome(paths, body, k) ==
    LET g == CheckPaths(paths)
        t == RunTry(body, k)
    IN IF g.result.exc # "none"
       THEN [trace |-> g.events, result |-> g.result, logged |-> "ERROR"]
       ELSE [trace |-> g.events \o t.events, result |-> t.result,
             logged |-> t.logged]

NoPath == <<>>
NoMode == <<>>

B3Body(save_path) ==
    << Event("requests.get", NoPath, NoMode, "response"),
       Event("raise_for_status", NoPath, NoMode, "response"),
       Event("open", save_path, <<"w">>, "file"),
       Event("write", save_path, <<"w">>, "response.text") >>

B3 ==
    /\ Callable("B3")
    /\ \E save_path \in WrapPaths :
           \E k \in 0..Len(B3Body(save_path)) :
               LET o == Outcome(<<save_path>>, B3Body(save_path), k)
               IN /\ call' = [fn |-> "B3", paths |-> <<save_path>>, mode |-> <<>>]
                  /\ trace' = o.trace
                  /\ result' = o.result
                  /\ log' = Append(log, o.logged)
                  /\ UNCHANGED <<env, pc, AIPROXY_TOKEN, app, defined>>

repo_path == <<"/", "d", "a", "t", "a", "/", "r", "e", "p", "o">>

B4Body ==
    << Event("git clone", repo_path, NoMode, "repo"),
       Event("git commit", repo_path, NoMode, "commit") >>

B4 ==
    /\ Callable("B4")
    /\ \E k \in 0..Len(B4Body) :
           LET o == Outcome(<<repo_path>>, B4Body, k)
           IN /\ call' = [fn |-> "B4", paths |-> <<repo_path>>, mode |-> <<>>]
              /\ trace' = o.trace
              /\ result' = o.result
              /\ log' = Append(log, o.logged)
              /\ UNCHANGED <<env, pc, AIPROXY_TOKEN, app, defined>>

db_type(db_path) ==
    IF EndsWith(db_path, <<".", "d", "b">>) THEN "sqlite" ELSE "duckdb"

B5Body(db_path, output_filename) ==
    << Event(IF db_type(db_path) = "sqlite" THEN "sqlite3.connect"
                                            ELSE "duckdb.connect",
             db_path, NoMode, "conn"),
       Event("cursor", NoPath, NoMode, "cur"),
       Event("execute", db_path, NoMode, "query"),
       Event("fetchall", NoPath, NoMode, "result"),
       Event("close", db_path, NoMode, "conn"),
       Event("open", output_filename, <<"w">>, "file"),
       Event("write", output_filename, <<"w">>, "result") >>

B5 ==
    /\ Callable("B5")
    /\ \E db_path \in WrapPaths, output_filename \in WrapPaths :
           \E k \in 0..Len(B5Body(db_path, output_filename)) :
               LET o == Outcome(<<db_path, output_filename>>, B5Body(db_path, output_filename), k)
               IN /\ call' = [fn |-> "B5", paths |-> <<db_path, output_filename>>, mode |-> <<>>]
                  /\ trace' = o.trace
                  /\ result' = o.result
                  /\ log' = Append(log, o.logged)
                  /\ UNCHANGED <<env, pc, AIPROXY_TOKEN, app, defined>>

B6Body(output_filename) ==
    << Event("requests.get", NoPath, NoMode, "response"),
       Event("raise_for_status", NoPath, NoMode, "response"),
       Event("open", output_filename, <<"w">>, "file"),
       Event("write", output_filename, <<"w">>, "response.text") >>

B6 ==
    /\ Callable("B6")
    /\ \E output_filename \in WrapPaths :
           \E k \in 0..Len(B6Body(output_filename)) :
               LET o == Outcome(<<output_filename>>, B6Body(output_filename), k)
               IN /\ call' = [fn |-> "B6", paths |-> <<output_filename>>, mode |-> <<>>]
                  /\ trace' = o.trace
                  /\ result' = o.result
                  /\ log' = Append(log, o.logged)
                  /\ UNCHANGED <<env, pc, AIPROXY_TOKEN, app, defined>>

\* the try block only assigns a constant string and logs
B8Body == <<>>

B8 ==
    /\ Callable("B8")
    /\ \E audio_path \in WrapPaths :
           \E k \in 0..Len(B8Body) :
               LET o == Outcome(<<audio_path>>, B8Body, k)
               IN /\ call' = [fn |-> "B8", paths |-> <<audio_path>>, mode |-> <<>>]
                  /\ trace' = o.trace
                  /\ result' = o.result
                  /\ log' = Append(log, o.logged)
                  /\ UNCHANGED <<env, pc, AIPROXY_TOKEN, app, defined>>

\* B9 appending to its output file
B9BodyAppend(md_path, output_path) ==
    << Event("open", md_path, <<"r">>, "file"),
       Event("read", md_path, <<"r">>, "md"),
       Event("markdown.markdown", NoPath, NoMode, "html"),
       Event("open", output_path, <<"a">>, "file"),
       Event("write", output_path, <<"a">>, "html") >>

B9Body(md_path, output_path) ==
    << Event("open", md_path, <<"r">>, "file"),
       Event("read", md_path, <<"r">>, "md"),
       Event("markdown.markdown", NoPath, NoMode, "html"),
       Event("open", output_path, <<"w">>, "file"),
       Event("write", output_path, <<"w">>, "html") >>

B9 ==
    /\ Callable("B9")
    /\ \E md_path \in WrapPaths, output_path \in WrapPaths :
           \E k \in 0..Len(B9Body(md_path, output_path)) :
               LET o == Outcome(<<md_path, output_path>>, B9Body(md_path, output_path), k)
               IN /\ call' = [fn |-> "B9", paths |-> <<md_path, output_path>>, mode |-> <<>>]
                  /\ trace' = o.trace
                  /\ result' = o.result
                  /\ log' = Append(log, o.logged)
                  /\ UNCHANGED <<env, pc, AIPROXY_TOKEN, app, defined>>

B10Body(csv_path) ==
    << Event("pd.read_csv", csv_path, <<"r">>, "df"),
       Event("filter", NoPath, NoMode, "filtered") >>

B10 ==
    /\ Callable("B10")
    /\ \E csv_path \in WrapPaths :
           \E k \in 0..Len(B10Body(csv_path)) :
               LET o == Outcome(<<csv_path>>, B10Body(csv_path), k)
               IN /\ call' = [fn |-> "B10", paths |-> <<csv_path>>, mode |-> <<>>]
                  /\ trace' = o.trace
                  /\ result' = o.result
                  /\ log' = Append(log, o.logged)
                  /\ UNCHANGED <<env, pc, AIPROXY_TOKEN, app, defined>>

Next ==
    \/ ReadEnv
    \/ CheckToken
    \/ CreateApp
    \/ DefineFunction
    \/ CallB1
    \/ CallB2
    \/ RepeatGuard
    \/ B3
    \/ B4
    \/ B5
    \/ B6
    \/ B8
    \/ B9
    \/ B10
    \/ ReturnToCaller

Spec == Init /\ [][Next]_vars

TypeOK ==
    /\ env \in EnvValues
    /\ pc \in {"import", "check", "raised", "app", "defs", "ready"}
    /\ app \in BOOLEAN
    /\ defined \subseteq {DefOrder[i] : i \in 1..Len(DefOrder)}
    /\ Len(log) <= MaxLog

\* ------------------------------------------------ notions the claims use
\* lexical normalisation of a path (empty, "." and ".." components), as
\* posixpath.normpath computes it
RECURSIVE SplitSlash(_)
SplitSlash(s) ==
    IF Len(s) = 0 THEN << <<>> >>
    ELSE LET r == SplitSlash(Tail(s))
         IN IF Head(s) = "/" THEN << <<>> >> \o r
            ELSE << <<Head(s)>> \o Head(r) >> \o Tail(r)

RECURSIVE NormLoop(_, _, _)
NormLoop(comps, new, initial) ==
    IF Len(comps) = 0 THEN new
    ELSE LET c == Head(comps)
         IN IF c = <<>> \/ c = <<".">>
            THEN NormLoop(Tail(comps), new, initial)
            ELSE IF \/ c # SegDotDot
                    \/ (~initial /\ Len(new) = 0)
                    \/ (Len(new) > 0 /\ new[Len(new)] = SegDotDot)
            THEN NormLoop(Tail(comps), Append(new, c), initial)
            ELSE IF Len(new) > 0
            THEN NormLoop(Tail(comps), SubSeq(new, 1, Len(new) - 1), initial)
            ELSE NormLoop(Tail(comps), new, initial)

normpath(path) ==
    IF Len(path) = 0 THEN <<".">>
    ELSE LET initial == path[1] = "/"
             double == /\ StartsWith(path, <<"/", "/">>)
                       /\ ~StartsWith(path, <<"/", "/", "/">>)
             joined == JoinSlash(NormLoop(SplitSlash(path), <<>>, initial))
             out == IF double THEN <<"/", "/">> \o joined
                    ELSE IF initial THEN <<"/">> \o joined
                    ELSE joined
         IN IF Len(out) = 0 THEN <<".">> ELSE out

IsAbsolute(path) == Len(path) > 0 /\ path[1] = "/"

\* the normalised path is the root /data or nested under it
UnderRoot(path) ==
    LET n == normpath(path)
    IN n = DataPrefix \/ StartsWith(n, DataPrefix \o <<"/">>)

\* operations that act outside the process
ExternalOps ==
    {"requests.get", "git clone", "git commit", "sqlite3.connect",
     "duckdb.connect", "execute", "open", "read", "write", "pd.read_csv"}

GuardOps == {"B1", "B2"}

\* an operation whose effect stays after the call: a clone, a commit, an
\* executed query, a file created or truncated by open(..., 'w'), a write
LeavesEffect(e) ==
    \/ e.op \in {"git clone", "git commit", "execute", "write"}
    \/ e.op = "open" /\ e.mode = <<"w">>

IsWrapperCall == call.fn \in Wrappers

\* the try block of the wrapper that was called
BodyOf(c) ==
    CASE c.fn = "B3" -> B3Body(c.paths[1])
      [] c.fn = "B4" -> B4Body
      [] c.fn = "B5" -> B5Body(c.paths[1], c.paths[2])
      [] c.fn = "B6" -> B6Body(c.paths[1])
      [] c.fn = "B8" -> B8Body
      [] c.fn = "B9" -> B9Body(c.paths[1], c.paths[2])
      [] c.fn = "B10" -> B10Body(c.paths[1])
      [] OTHER -> <<>>

\* the part of the trace after the guard checks
RECURSIVE DropGuards(_)
DropGuards(t) ==
    IF Len(t) = 0 THEN <<>>
    ELSE IF Head(t).op \in GuardOps THEN DropGuards(Tail(t))
    ELSE t

GuardRejects(c) == \E i \in 1..Len(c.paths) : B1(c.paths[i]).exc # "none"

\* the value a wrapper computes: what it should persist or return
ResultOf(fn) ==
    CASE fn = "B3" -> "response.text"
      [] fn = "B4" -> "commit"
      [] fn = "B5" -> "result"
      [] fn = "B6" -> "response.text"
      [] fn = "B8" -> "transcription"
      [] fn = "B9" -> "html"
      [] fn = "B10" -> "filtered"
      [] OTHER -> "none"

\* an open mode Python accepts: one of r, w, a, x, optionally b and/or +
ValidMode(mode) ==
    /\ Cardinality({i \in 1..Len(mode) : mode[i] \in {"r", "w", "a", "x"}}) = 1
    /\ Cardinality({i \in 1..Len(mode) : mode[i] = "b"}) <= 1
    /\ Cardinality({i \in 1..Len(mode) : mode[i] = "+"}) <= 1

\* a mode that can change or create a file
Mutating(mode) ==
    \E i \in 1..Len(mode) : mode[i] \in {"w", "a", "x", "+"}

\* ----------------------------------------------------------------- claims

\* C1: every path that, once normalised, is neither /data nor nested under
\* it is rejected by B1 with the 403 access-denied error.
C1_ConfineRejectsOutside ==
    (call.fn = "B1" /\ ~UnderRoot(call.paths[1]))
        => (result.exc = "HTTPException" /\ result.status = 403)

\* C2: every path that denotes /data or a descendant of it is accepted by
\* B1 (stated here for the absolute paths, whose meaning needs no working
\* directory).
C2_ConfineAcceptsInside ==
    (call.fn = "B1" /\ IsAbsolute(call.paths[1]) /\ UnderRoot(call.paths[1]))
        => result = Returned("True")

\* C3: B2 returns ok for mode read and fails with the write-not-allowed
\* error for every mode that can change or create a file, 'r+' included.
C3_ReadOnlyRejectsMutating ==
    (call.fn = "B2" /\ ValidMode(call.mode))
        => /\ call.mode = <<"r">> => result = Returned("True")
           /\ Mutating(call.mode) => result.exc = "PermissionError"

\* C4: a wrapper call with any path argument outside the root ends with the
\* 403 error and has performed no external operation.
C4_OutsideRejectedBeforeEffects ==
    (IsWrapperCall /\ \E i \in 1..Len(call.paths) : ~UnderRoot(call.paths[i]))
        => /\ result.status = 403
           /\ \A j \in 1..Len(trace) : trace[j].op \notin ExternalOps

\* C5: a wrapper call ends in success (True), in 403 exactly when the guard
\* rejects one of its paths, or in 500 carrying the cause when an operation
\* of its try block fails; no other exception leaves the wrapper, and a
\* call reported as success has run its whole try block.
C5_ThreeOutcomes ==
    IsWrapperCall =>
        /\ \/ result = Returned("True")
           \/ /\ result.exc = "HTTPException"
              /\ result.ret = "none"
              /\ result.status \in {403, 500}
        /\ (result.status = 403) <=> GuardRejects(call)
        /\ (result.status = 500) =>
              \E k \in 1..Len(BodyOf(call)) :
                  result.detail = BodyOf(call)[k].op
        /\ (result.ret = "True") => DropGuards(trace) = BodyOf(call)

C5_Witness ==
    /\ call.fn = "B9"
    /\ result.status = 500
    /\ result.detail = "markdown.markdown"

\* C6 (as stated): every open a wrapper makes has been checked by B2 and is
\* not in a write, append or exclusive-create mode.
C6_OpensReadOnlyChecked ==
    IsWrapperCall =>
        \A i \in 1..Len(trace) :
            trace[i].op = "open" =>
                /\ ~Mutating(trace[i].mode)
                /\ \E j \in 1..(i - 1) :
                      /\ trace[j].op = "B2"
                      /\ trace[j].path = trace[i].path
                      /\ trace[j].mode = trace[i].mode

\* C6 (amended): no wrapper calls B2; every open() of a wrapper is in mode
\* 'r' or 'w', never append or exclusive-create, and its path has passed
\* B1 earlier in the same call.
C6_OpensAfterConfine ==
    IsWrapperCall =>
        /\ \A i \in 1..Len(trace) : trace[i].op # "B2"
        /\ \A i \in 1..Len(trace) :
              trace[i].op = "open" =>
                  /\ trace[i].mode \in {<<"r">>, <<"w">>}
                  /\ \E j \in 1..(i - 1) :
                        /\ trace[j].op = "B1"
                        /\ trace[j].path = trace[i].path

C6_Witness ==
    /\ call.fn = "B9"
    /\ result.ret = "True"
    /\ \E i \in 1..Len(trace) : trace[i].op = "open" /\ trace[i].mode = <<"w">>

\* C7 (as stated): a wrapper call that ends in an execution error has left
\* no effect behind.
C7_NoPartialFailure ==
    (IsWrapperCall /\ result.status = 500)
        => \A j \in 1..Len(trace) : ~LeavesEffect(trace[j])

\* C7 (amended): a wrapper runs the operations of its try block in order
\* and without rollback: when a call ends in an execution error, exactly
\* the operations before the failing one have been performed and none
\* after it.
C7_PrefixBeforeFailure ==
    (IsWrapperCall /\ result.status = 500)
        => \E k \in 1..Len(BodyOf(call)) :
              /\ BodyOf(call)[k].op = result.detail
              /\ DropGuards(trace) = SubSeq(BodyOf(call), 1, k - 1)

C7_Witness ==
    /\ call.fn = "B4"
    /\ result.status = 500
    /\ result.detail = "git commit"
    /\ \E j \in 1..Len(trace) : trace[j].op = "git clone"

\* C8: a wrapper call that succeeds has written its result to a file or
\* returned it to the caller.
C8_ResultPersistedOrReturned ==
    (IsWrapperCall /\ result.ret = "True")
        => \/ \E j \in 1..Len(trace) :
                 /\ trace[j].op \in {"write", "git commit"}
                 /\ trace[j].data = ResultOf(call.fn)
           \/ result.ret = ResultOf(call.fn)

\* C9: in a process started with the token absent or empty, the app object
\* and the functions are never defined and no function is ever called.
C9_NoStartWithoutToken ==
    (env = None \/ env = Str(<<>>))
        => /\ pc \in {"import", "check", "raised"}
           /\ app = FALSE
           /\ defined = {}
           /\ call = NoCall

C9_Witness ==
    /\ env = Str(<<>>)
    /\ pc = "raised"

\* C10: a guard call performs no external operation and changes nothing
\* but the log, to which it appends one record exactly when it fails; the
\* same call made again gives the same outcome.
C10_GuardStep ==
    call'.fn \in GuardOps =>
        /\ UNCHANGED <<env, pc, AIPROXY_TOKEN, app, defined>>
        /\ \A j \in 1..Len(trace') : trace'[j].op \in GuardOps
        /\ log' = IF result'.exc = "none" THEN log ELSE Append(log, "ERROR")
        /\ (call' = call) => (result' = result)

C10_GuardsStateless == [][C10_GuardStep]_vars

C10_Witness ==
    /\ call.fn = "B1"
    /\ result.status = 403
    /\ log = <<"ERROR", "ERROR">>

====
